---- MODULE Spec2Model ----
(***************************************************************************)
(* Order-placement and payment-state workflow of the e-commerce server.   *)
(*                                                                         *)
(* The state is the content of the storage singleton (products, carts,    *)
(* cart items, orders, order items, payments).  Every service operation   *)
(* is an operator from a storage snapshot to the snapshot it leaves, the  *)
(* value it returns or the error it throws, and the payment-status writes *)
(* it issued; every action is one such call run to completion.            *)
(*                                                                         *)
(* Three configuration choices are fixed when the process starts and are  *)
(* drawn in Init:                                                          *)
(*   impl            which IStorage implementation backs the services      *)
(*                   (MemStorage of storage.ts or PgStorage of db.ts);     *)
(*   paymentModule   which of the two payment-service modules the import  *)
(*                   "./services/payment-service" resolves to;             *)
(*   stripeConfigured  whether stripe-service holds a secret key.          *)
(* Money is counted in whole units; ids are the serial numbers handed out *)
(* by the storage counters.  Users are never deleted, so the user lookups *)
(* of the payment service always succeed and are left out.                 *)
(***************************************************************************)
EXTENDS Integers, Sequences, FiniteSets, TLC

\* ---------------------------------------------------------------- bounds
\* orders createOrderFromCart may place, and cart-item ids storage may hand out
MaxOrders == 2
MaxCartItems == 2

Users == {1, 2}
ProductIds == {1, 2}
Prices == {5, 10}
Amounts == {5, 10}
Methods == {"stripe", "credit_card"}
\* quantities a client asks for; a cart line never grows past the largest
Quantities == {1, 2}
\* ids a caller may pass: a row with that id may or may not exist yet
OrderIdInputs == 1..Cardinality(Users)
PaymentIdInputs == 1..Cardinality(Users)

\* request handlers that can be in flight at the same time
Requests == {1, 2}

\* values of MemStorage's order id counter at which createOrder is looked at
OrderIdSamples == {1, 7, 9, 10, 42, 99, 100, 999, 1000, 1007, 9999, 10000, 10007, 12345, 100007}

\* a nullable integer column holding SQL NULL / JS null
Null == -1

\* ------------------------------------------------------------ enumerations
OrderStatus == {"pending", "processing", "shipped", "delivered", "cancelled", "completed"}
PaymentStatus == {"pending", "completed", "failed", "refunded"}

VARIABLES impl, paymentModule, stripeConfigured,
          products, carts, cartItems, orders, orderItems, payments,
          cartItemId, notifications, calls

vars == <<impl, paymentModule, stripeConfigured,
          products, carts, cartItems, orders, orderItems, payments,
          cartItemId, notifications, calls>>

config == <<impl, paymentModule, stripeConfigured>>

\* ------------------------------------------------------------------ helpers
Max(a, b) == IF a >= b THEN a ELSE b

\* JavaScript truthiness of a nullable number: null and 0 are falsy
Truthy(n) == n # Null /\ n # 0

MinOf(S) == CHOOSE x \in S : \A y \in S : x <= y

MaxOf(S) == CHOOSE x \in S : \A y \in S : x >= y

RECURSIVE SortedSeq(_)
SortedSeq(S) == IF S = {} THEN <<>>
                ELSE <<MinOf(S)>> \o SortedSeq(S \ {MinOf(S)})

NoWrites == <<>>


\* ------------------------------------------------------------ MemStorage / PgStorage
\* Rows that are never deleted (carts, orders, order items, payments) are kept
\* as sequences indexed by their serial id; products and cart items can be
\* deleted and are kept by id.

getProduct(prods, id) == IF id \in DOMAIN prods /\ prods[id].exists THEN id ELSE 0

updateProductInventory(prods, id, inventory) ==
    IF getProduct(prods, id) = 0 THEN prods
    ELSE [prods EXCEPT ![id].inventory = inventory]

updateProductPrice(prods, id, price) ==
    IF getProduct(prods, id) = 0 THEN prods
    ELSE [prods EXCEPT ![id].price = price]

DeletedProduct == [exists |-> FALSE, price |-> 0, inventory |-> Null]

storageDeleteProduct(prods, id) ==
    IF getProduct(prods, id) = 0 THEN prods
    ELSE [prods EXCEPT ![id] = DeletedProduct]

\* a lookup that ignores the user and returns the first cart
getCartByUserId_AnyUser(cs, userId) == IF cs = <<>> THEN 0 ELSE 1

getCartByUserId(cs, userId) ==
    IF \E i \in DOMAIN cs : cs[i].userId = userId
    THEN MinOf({i \in DOMAIN cs : cs[i].userId = userId})
    ELSE 0

storageCreateCart(cs, userId) == Append(cs, [userId |-> userId])

getCartItems(items, cid) == {it \in items : it.cartId = cid}

CartItemById(items, id) == CHOOSE it \in items : it.id = id

storageRemoveCartItem(items, id) == {it \in items : it.id # id}

\* MemStorage.updateCartItem deletes the row for quantity <= 0;
\* PgStorage.updateCartItem writes whatever quantity it is given
updateCartItem(storageImpl, items, id, quantity) ==
    IF ~(\E it \in items : it.id = id) THEN items
    ELSE IF storageImpl = "mem" /\ quantity <= 0 THEN storageRemoveCartItem(items, id)
    ELSE {IF it.id = id THEN [it EXCEPT !.quantity = quantity] ELSE it : it \in items}

\* MemStorage.addCartItem merges into the existing (cartId, productId) row;
\* PgStorage.addCartItem always inserts (quantity || 1)
\* an insert that merges into the existing row whatever the storage
addCartItem_Merging(storageImpl, items, nextId, cid, productId, quantity) ==
    LET same == {it \in items : it.cartId = cid /\ it.productId = productId}
    IN  IF same # {}
        THEN LET ex == CartItemById(items, MinOf({it.id : it \in same}))
             IN  [items |-> {IF it.id = ex.id THEN [it EXCEPT !.quantity = @ + quantity] ELSE it
                               : it \in items},
                  nextId |-> nextId]
        ELSE [items |-> items \cup {[id |-> nextId, cartId |-> cid, productId |-> productId,
                                      quantity |-> quantity]},
              nextId |-> nextId + 1]

addCartItem(storageImpl, items, nextId, cid, productId, quantity) ==
    LET same == {it \in items : it.cartId = cid /\ it.productId = productId}
        row  == [id |-> nextId, cartId |-> cid, productId |-> productId,
                 quantity |-> IF storageImpl = "pg" /\ quantity = 0 THEN 1 ELSE quantity]
    IN  IF storageImpl = "mem" /\ same # {}
        THEN LET ex == CartItemById(items, MinOf({it.id : it \in same}))
             IN  [items |-> updateCartItem(storageImpl, items, ex.id, ex.quantity + quantity),
                  nextId |-> nextId]
        ELSE [items |-> items \cup {row}, nextId |-> nextId + 1]

\* ------------------------------------------- MemStorage.createOrder: orderId
\* strings are sequences of characters
DigitChars == <<"0", "1", "2", "3", "4", "5", "6", "7", "8", "9">>

\* String(id) for a non-negative integer
RECURSIVE String(_)
String(n) ==
    IF n < 10 THEN <<DigitChars[n + 1]>>
    ELSE String(n \div 10) \o <<DigitChars[(n % 10) + 1]>>

\* String.prototype.padStart with a one-character pad string
RECURSIVE padStart(_, _, _)
padStart(str, targetLength, padString) ==
    IF Len(str) >= targetLength THEN str
    ELSE padStart(<<padString>> \o str, targetLength, padString)

\* a rendering that keeps the last four digits only
FormatOrderId_FourDigits(id) ==
    <<"O", "R", "D", "-">> \o padStart(String(id % 10000), 4, "0")

\* `ORD-${String(id).padStart(4, '0')}`
FormatOrderId(id) ==
    <<"O", "R", "D", "-">> \o padStart(String(id), 4, "0")

storageCreateOrder(ords, userId, status, total) ==
    Append(ords, [userId |-> userId, status |-> status, total |-> total])

\* a status update that is dropped
updateOrderStatus_Dropped(ords, id, status) == ords

\* a status update that only moves an order out of pending
updateOrderStatus_PendingOnly(ords, id, status) == IF id \in DOMAIN ords /\ ords[id].status = "pending" THEN [ords EXCEPT ![id].status = status] ELSE ords

updateOrderStatus(ords, id, status) ==
    IF id \in DOMAIN ords THEN [ords EXCEPT ![id].status = status] ELSE ords

getOrderItems(oitems, orderId) == {i \in DOMAIN oitems : oitems[i].orderId = orderId}

addOrderItem(oitems, orderId, productId, quantity, price) ==
    Append(oitems, [orderId |-> orderId, productId |-> productId,
                    quantity |-> quantity, price |-> price])

\* a lookup that never finds the row
getPaymentByOrderId_Blind(pays, orderId) == 0

\* a lookup that overlooks payments that failed or were refunded
getPaymentByOrderId_Live(pays, orderId) ==
    IF \E i \in DOMAIN pays : pays[i].orderId = orderId
                                /\ pays[i].status \in {"pending", "completed"}
    THEN MinOf({i \in DOMAIN pays : pays[i].orderId = orderId
                                      /\ pays[i].status \in {"pending", "completed"}})
    ELSE 0

getPaymentByOrderId(pays, orderId) ==
    IF \E i \in DOMAIN pays : pays[i].orderId = orderId
    THEN MinOf({i \in DOMAIN pays : pays[i].orderId = orderId})
    ELSE 0

\* an insert under a unique index on orderId: a second row is not added
storageCreatePayment_Unique(pays, orderId, amount, status, paymentMethod, transactionId) ==
    IF \E i \in DOMAIN pays : pays[i].orderId = orderId THEN pays
    ELSE Append(pays, [orderId |-> orderId, amount |-> amount, status |-> status,
                       paymentMethod |-> paymentMethod, transactionId |-> transactionId])

storageCreatePayment(pays, orderId, amount, status, paymentMethod, transactionId) ==
    Append(pays, [orderId |-> orderId, amount |-> amount, status |-> status,
                  paymentMethod |-> paymentMethod, transactionId |-> transactionId])

updatePaymentStatus(pays, id, status) ==
    IF id \in DOMAIN pays THEN [pays EXCEPT ![id].status = status] ELSE pays

\* a run of storage.updatePaymentStatus(id, s) calls, in order: the resulting
\* table and the log of <<id, status before, status after>>
RECURSIVE ApplyStatusWrites(_, _, _, _)
ApplyStatusWrites(pays, id, statuses, log) ==
    IF statuses = <<>> THEN [payments |-> pays, writes |-> log]
    ELSE ApplyStatusWrites(updatePaymentStatus(pays, id, Head(statuses)), id, Tail(statuses),
                           Append(log, <<id, pays[id].status, Head(statuses)>>))

\* ------------------------------------------------- cart service: getCartWithItems
\* the cart lines in storage order, each joined with the product row read at
\* that moment; lines whose product is gone are skipped
RECURSIVE JoinProducts(_, _, _)
JoinProducts(items, prods, ids) ==
    IF ids = <<>> THEN <<>>
    ELSE LET it == CartItemById(items, Head(ids))
             rest == JoinProducts(items, prods, Tail(ids))
         IN  IF getProduct(prods, it.productId) # 0
             THEN <<[id |-> it.id, productId |-> it.productId, quantity |-> it.quantity,
                     product |-> [id |-> it.productId,
                                  price |-> prods[it.productId].price,
                                  inventory |-> prods[it.productId].inventory]]>> \o rest
             ELSE rest

\* a subtotal that forgets the quantities
RECURSIVE Subtotal_UnitPrices(_)
Subtotal_UnitPrices(lines) ==
    IF lines = <<>> THEN 0 ELSE Head(lines).product.price + Subtotal_UnitPrices(Tail(lines))

RECURSIVE Subtotal(_)
Subtotal(lines) ==
    IF lines = <<>> THEN 0
    ELSE Head(lines).product.price * Head(lines).quantity + Subtotal(Tail(lines))

RECURSIVE TotalItems(_)
TotalItems(lines) ==
    IF lines = <<>> THEN 0 ELSE Head(lines).quantity + TotalItems(Tail(lines))

getCartWithItems(cs, items, prods, cid) ==
    IF cid \notin DOMAIN cs THEN [found |-> FALSE, items |-> <<>>, subtotal |-> 0, totalItems |-> 0]
    ELSE LET lines == JoinProducts(items, prods,
                                   SortedSeq({it.id : it \in getCartItems(items, cid)}))
         IN  [found |-> TRUE, items |-> lines, subtotal |-> Subtotal(lines),
              totalItems |-> TotalItems(lines)]

\* order items written only while the current stock covers the quantity
RECURSIVE AddOrderItems_Guarded(_, _, _, _)
AddOrderItems_Guarded(lines, orderId, oitems, prods) ==
    IF lines = <<>> THEN [orderItems |-> oitems, products |-> prods]
    ELSE LET item == Head(lines)
             stock == prods[item.productId].inventory
         IN  IF Truthy(stock) /\ stock >= item.quantity
             THEN AddOrderItems_Guarded(Tail(lines), orderId,
                      addOrderItem(oitems, orderId, item.productId, item.quantity,
                                   item.product.price),
                      updateProductInventory(prods, item.productId, stock - item.quantity))
             ELSE AddOrderItems_Guarded(Tail(lines), orderId, oitems, prods)

\* ------------------------------------------ order service: createOrderFromCart loops
\* the "Add order items" loop of createOrderFromCart: one order item per
\* joined line, and the inventory write computed from the product row that
\* was read with the cart (not re-read)
RECURSIVE AddOrderItems(_, _, _, _)
AddOrderItems(lines, orderId, oitems, prods) ==
    IF lines = <<>> THEN [orderItems |-> oitems, products |-> prods]
    ELSE LET item == Head(lines)
             product == item.product
             oitems1 == addOrderItem(oitems, orderId, item.productId, item.quantity, product.price)
             prods1 == IF Truthy(product.inventory)
                       THEN updateProductInventory(prods, product.id,
                                                   Max(0, product.inventory - item.quantity))
                       ELSE prods
         IN  AddOrderItems(Tail(lines), orderId, oitems1, prods1)

\* the "Clear the cart" loop: removes the rows that were joined
RECURSIVE ClearCart(_, _)
ClearCart(lines, items) ==
    IF lines = <<>> THEN items
    ELSE ClearCart(Tail(lines), storageRemoveCartItem(items, Head(lines).id))

\* ------------------------------------------------------------ service results
\* the storage content as one value
Store == [products |-> products, carts |-> carts, cartItems |-> cartItems,
          cartItemId |-> cartItemId, orders |-> orders, orderItems |-> orderItems,
          payments |-> payments, notifications |-> notifications]

\* an operation that returned: the storage it leaves, the id of the row it
\* returns, its storage.updatePaymentStatus writes <<id, before, after>>, and
\* the notification it asks the notification service for as its last step
\* before returning (none: <<>>)
Returned(s, ret, writes) ==
    [store |-> s, result |-> "ok", ret |-> ret, writes |-> writes, notify |-> <<>>]

\* an operation that threw (or returned undefined/false) before writing
\* a call that returns undefined, its not-found answer
NotFound(s) ==
    [store |-> s, result |-> "undefined", ret |-> 0, writes |-> NoWrites, notify |-> <<>>]

Threw(s, error) ==
    [store |-> s, result |-> error, ret |-> 0, writes |-> NoWrites, notify |-> <<>>]

\* ------------------------------------------------------- notification service
\* the notification rows: kind, recipient, and the metadata of the kind
\* (amount for payments and refunds, status for status updates)
Notification(kind, recipientId, orderId, amount, status) ==
    [kind |-> kind, recipientId |-> recipientId, orderId |-> orderId,
     amount |-> amount, status |-> status]

sendOrderConfirmation(userId, orderId) ==
    Notification("Order Confirmation", userId, orderId, Null, "")

sendOrderStatusUpdate(userId, orderId, status) ==
    Notification("Order Status Update", userId, orderId, Null, status)

sendPaymentConfirmation(userId, orderId, amount) ==
    Notification("Payment Confirmation", userId, orderId, amount, "")

\* the refund notice processRefund sends through sendNotification;
\* refundAmount is amount || payment.amount
RefundProcessed(userId, orderId, amount, paymentAmount) ==
    Notification("Refund Processed", userId, orderId,
                 IF Truthy(amount) THEN amount ELSE paymentAmount, "")

\* sendNotification / addNotification: the row is pushed on the list
sendNotification(notes, n) == Append(notes, n)

\* the awaited notification call that ends an operation: when it returns, the
\* row is on the list and the operation returns its result; when it throws,
\* the operation throws after its storage writes
Deliver(r, notifyOk) ==
    IF r.notify = <<>> THEN r
    ELSE IF notifyOk
    THEN [r EXCEPT !.store.notifications = sendNotification(@, r.notify[1])]
    ELSE [r EXCEPT !.result = "Notification failed", !.ret = 0]

\* ------------------------------------------------------------------ cart service
GetOrCreateCartForUser(s, userId) ==
    IF getCartByUserId(s.carts, userId) # 0
    THEN Returned(s, getCartByUserId(s.carts, userId), NoWrites)
    ELSE Returned([s EXCEPT !.carts = storageCreateCart(s.carts, userId)],
                  Len(s.carts) + 1, NoWrites)

AddItemToCart(s, userId, productId, quantity) ==
    LET got == GetOrCreateCartForUser(s, userId)
        s1 == got.store
        added == addCartItem(impl, s1.cartItems, s1.cartItemId, got.ret, productId, quantity)
    IN  IF getProduct(s1.products, productId) = 0 THEN Threw(s1, "Product not found")
        ELSE Returned([s1 EXCEPT !.cartItems = added.items, !.cartItemId = added.nextId],
                      got.ret, NoWrites)

UpdateCartItemQuantity(s, id, quantity) ==
    IF ~(\E it \in s.cartItems : it.id = id) THEN Threw(s, "undefined")
    ELSE Returned([s EXCEPT !.cartItems = updateCartItem(impl, s.cartItems, id, quantity)],
                  id, NoWrites)

RemoveCartItem(s, id) ==
    IF ~(\E it \in s.cartItems : it.id = id) THEN Threw(s, "false")
    ELSE Returned([s EXCEPT !.cartItems = storageRemoveCartItem(s.cartItems, id)], id, NoWrites)

\* ----------------------------------------------------------------- order service
\* createOrderFromCart from "Create the order" on: the writes made from the
\* cart that was read (cartWithItems), on the storage as it is now
OrderFromCartWithItems(s, userId, cartWithItems) ==
    LET orders1 == storageCreateOrder(s.orders, userId, "pending", cartWithItems.subtotal)
        orderId == Len(orders1)
        added == AddOrderItems(cartWithItems.items, orderId, s.orderItems, s.products)
    IN  Returned([s EXCEPT !.products = added.products,
                           !.cartItems = ClearCart(cartWithItems.items, s.cartItems),
                           !.orders = orders1,
                           !.orderItems = added.orderItems],
                 orderId, NoWrites)

CreateOrderFromCart(s, userId) ==
    LET cid == getCartByUserId(s.carts, userId)
        cartWithItems == getCartWithItems(s.carts, s.cartItems, s.products, cid)
    IN  IF cid = 0 THEN Threw(s, "Cart not found")
        ELSE IF ~cartWithItems.found \/ Len(cartWithItems.items) = 0
        THEN Threw(s, "Cart is empty")
        ELSE OrderFromCartWithItems(s, userId, cartWithItems)

\* ------------------------------------------------ lookups and status updates
\* ret is the id of the row the call returns
GetOrder(s, id) ==
    IF id \in DOMAIN s.orders THEN Returned(s, id, NoWrites) ELSE NotFound(s)

\* the order joined with its user and items; users are never removed, so the
\* user of an existing order is always found
GetOrderWithItems(s, orderId) ==
    IF orderId \notin DOMAIN s.orders THEN NotFound(s)
    ELSE IF s.orders[orderId].userId \notin Users THEN NotFound(s)
    ELSE Returned(s, orderId, NoWrites)

GetPayment(s, id) ==
    IF id \in DOMAIN s.payments THEN Returned(s, id, NoWrites) ELSE NotFound(s)

GetPaymentByOrderId(s, orderId) ==
    LET id == getPaymentByOrderId(s.payments, orderId)
    IN  IF id # 0 THEN Returned(s, id, NoWrites) ELSE NotFound(s)

\* a status update that throws for a payment that does not exist
UpdatePaymentStatus_Throwing(s, id, status) ==
    IF id \notin DOMAIN s.payments THEN Threw(s, "Payment not found")
    ELSE Returned([s EXCEPT !.payments = updatePaymentStatus(@, id, status)], id,
                  <<<<id, s.payments[id].status, status>>>>)

UpdatePaymentStatus(s, id, status) ==
    IF id \notin DOMAIN s.payments THEN NotFound(s)
    ELSE Returned([s EXCEPT !.payments = updatePaymentStatus(@, id, status)], id,
                  <<<<id, s.payments[id].status, status>>>>)

\* a status update that leaves cancelled, delivered and completed orders alone
UpdateOrderStatus_Guarded(s, orderId, status) ==
    IF orderId \notin DOMAIN s.orders THEN NotFound(s)
    ELSE IF s.orders[orderId].status \in {"cancelled", "delivered", "completed"}
    THEN Threw(s, "Invalid transition")
    ELSE Returned([s EXCEPT !.orders = updateOrderStatus(s.orders, orderId, status)],
                  orderId, NoWrites)

UpdateOrderStatus(s, orderId, status) ==
    IF orderId \notin DOMAIN s.orders THEN NotFound(s)
    ELSE Returned([s EXCEPT !.orders = updateOrderStatus(s.orders, orderId, status)],
                  orderId, NoWrites)

\* -------------------------------------------- payment service (payment-service.ts)
\* processPayment of the module without a gateway: guard, create with a mock
\* transaction id, then branch on mockSuccess
\* processPayment from "Create a payment record" on, the guard passed
PaymentAfterGuardSimple(s, orderId, amount, paymentMethod, mockSuccess) ==
    LET created == storageCreatePayment(s.payments, orderId, amount, "pending",
                                        paymentMethod, "txn")
        id == Len(created)
        done == ApplyStatusWrites(created, id,
                                  IF mockSuccess THEN <<"completed">> ELSE <<"failed">>,
                                  NoWrites)
    IN  Returned([s EXCEPT !.payments = done.payments,
                           !.orders = IF mockSuccess
                                      THEN updateOrderStatus(s.orders, orderId, "processing")
                                      ELSE s.orders],
                 id, done.writes)

ProcessPaymentSimple(s, orderId, amount, paymentMethod, mockSuccess) ==
    IF getPaymentByOrderId(s.payments, orderId) # 0
    THEN Threw(s, "Payment already exists")
    ELSE PaymentAfterGuardSimple(s, orderId, amount, paymentMethod, mockSuccess)

\* ------------------------------------- payment service with gateway (part_015)
\* createPayment: lookup-before-create; leaves the table as it is when it throws
createPayment(pays, orderId, amount, paymentMethod) ==
    IF getPaymentByOrderId(pays, orderId) # 0 THEN pays
    ELSE storageCreatePayment(pays, orderId, amount, "pending", paymentMethod, "none")

\* status writes that ignore the mockSuccess flag
PaymentWrites_IgnoreFlag(paymentMethod, mockSuccess, gatewayOk) == <<"completed">>

\* status writes that retry a failed payment as completed
PaymentWrites_Retry(paymentMethod, mockSuccess, gatewayOk) ==
    IF mockSuccess THEN <<"failed", "completed">> ELSE <<"failed">>

\* the status writes processPayment issues after the row is created.
\* gatewayOk is the outcome of stripeService.createPaymentIntent
PaymentWrites(paymentMethod, mockSuccess, gatewayOk) ==
    IF paymentMethod = "stripe" /\ stripeConfigured
    THEN IF gatewayOk
         THEN IF mockSuccess THEN <<"pending", "completed">> ELSE <<"pending">>
         ELSE <<"failed">>
    ELSE IF mockSuccess THEN <<"completed">> ELSE <<"failed">>

\* processPayment once storage.createPayment has inserted the row (created is
\* the payments table with it): the status writes, the order update and the
\* confirmation
PaymentAfterCreate(s, created, orderId, amount, paymentMethod, mockSuccess, gatewayOk) ==
    LET id == Len(created)
        done == ApplyStatusWrites(created, id,
                                  PaymentWrites(paymentMethod, mockSuccess, gatewayOk), NoWrites)
        updatedPayment == done.payments[id]
        returned ==
            Returned([s EXCEPT !.payments = done.payments,
                               !.orders = IF updatedPayment.status = "completed"
                                          THEN updateOrderStatus(s.orders, orderId, "processing")
                                          ELSE s.orders],
                     id, done.writes)
    IN  IF updatedPayment.status = "completed"
        THEN [returned EXCEPT !.notify =
                 <<sendPaymentConfirmation(s.orders[orderId].userId, orderId, amount)>>]
        ELSE returned

ProcessPayment(s, orderId, amount, paymentMethod, mockSuccess, gatewayOk) ==
    IF orderId \notin DOMAIN s.orders THEN Threw(s, "Order not found")
    ELSE LET created == createPayment(s.payments, orderId, amount, paymentMethod)
         IN  IF created = s.payments THEN Threw(s, "Payment already exists")
             ELSE PaymentAfterCreate(s, created, orderId, amount, paymentMethod,
                                     mockSuccess, gatewayOk)

CreateStripeCheckoutSession(s, orderId) ==
    IF ~stripeConfigured THEN Threw(s, "Stripe is not configured")
    ELSE IF orderId \notin DOMAIN s.orders THEN Threw(s, "Order not found")
    ELSE IF getOrderItems(s.orderItems, orderId) = {} THEN Threw(s, "No items found")
    ELSE IF \E i \in getOrderItems(s.orderItems, orderId) :
                getProduct(s.products, s.orderItems[i].productId) = 0
    THEN Threw(s, "Product not found")
    ELSE LET created == createPayment(s.payments, orderId, s.orders[orderId].total, "stripe")
         IN  IF created = s.payments THEN Threw(s, "Payment already exists")
             ELSE LET id == Len(created)
                      done == ApplyStatusWrites(created, id, <<"pending">>, NoWrites)
                  IN  Returned([s EXCEPT !.payments = done.payments], id, done.writes)

\* a refund that books the partial amount against Payment.amount
ProcessRefund_Partial(s, paymentId, amount, refundOk) ==
    IF paymentId \notin DOMAIN s.payments \/ s.payments[paymentId].status # "completed"
    THEN Threw(s, "Cannot refund payment")
    ELSE Returned([s EXCEPT !.payments[paymentId].status = "refunded",
                            !.payments[paymentId].amount =
                                IF amount = Null THEN 0 ELSE Max(0, @ - amount),
                            !.orders = updateOrderStatus(s.orders, s.payments[paymentId].orderId,
                                                         "cancelled")],
                  paymentId, <<<<paymentId, "completed", "refunded">>>>)

\* a refund that does not look at the payment's status
ProcessRefund_AnyStatus(s, paymentId, amount, refundOk) ==
    IF paymentId \notin DOMAIN s.payments THEN Threw(s, "Payment not found")
    ELSE Returned([s EXCEPT !.payments[paymentId].status = "refunded",
                            !.orders = updateOrderStatus(s.orders, s.payments[paymentId].orderId,
                                                         "cancelled")],
                  paymentId, <<<<paymentId, s.payments[paymentId].status, "refunded">>>>)

\* amount is the optional refund amount (Null when omitted); refundOk is the
\* outcome of stripeService.createRefund, consulted only for a Stripe payment
\* that carries a transaction id
ProcessRefund(s, paymentId, amount, refundOk) ==
    IF paymentId \notin DOMAIN s.payments THEN Threw(s, "Payment not found")
    ELSE LET payment == s.payments[paymentId]
         IN  IF payment.status # "completed" THEN Threw(s, "Cannot refund payment")
             ELSE IF payment.orderId \notin DOMAIN s.orders THEN Threw(s, "Order not found")
             ELSE IF stripeConfigured /\ payment.paymentMethod = "stripe"
                     /\ payment.transactionId # "none" /\ ~refundOk
             THEN Threw(s, "Stripe refund failed")
             ELSE LET done == ApplyStatusWrites(s.payments, paymentId, <<"refunded">>, NoWrites)
                      returned ==
                          Returned([s EXCEPT !.payments = done.payments,
                                             !.orders = updateOrderStatus(s.orders,
                                                                          payment.orderId,
                                                                          "cancelled")],
                                   paymentId, done.writes)
                  IN  [returned EXCEPT !.notify =
                          <<RefundProcessed(s.orders[payment.orderId].userId,
                                            payment.orderId, amount, payment.amount)>>]

\* paymentService.processPayment as the route handler reaches it: whichever
\* payment-service module the server was built with
processPaymentCall(s, orderId, amount, paymentMethod, mockSuccess, gatewayOk) ==
    IF paymentModule = "simple"
    THEN ProcessPaymentSimple(s, orderId, amount, paymentMethod, mockSuccess)
    ELSE ProcessPayment(s, orderId, amount, paymentMethod, mockSuccess, gatewayOk)

\* ------------------------------------------- POST /api/orders/:id/payment
\* the request body's mockSuccess field, a JSON boolean or absent
MockSuccessInputs == {"true", "false", "absent"}

Respond(r, http) ==
    [store |-> r.store, result |-> r.result, ret |-> r.ret, writes |-> r.writes,
     notify |-> r.notify, http |-> http]

\* the route without the owner check
PayOrderRoute_AnySession(s, sessionUser, orderId, paymentMethod, mockSuccess, gatewayOk, notifyOk) ==
    IF orderId \notin DOMAIN s.orders THEN Respond(Threw(s, "Order not found"), 404)
    ELSE LET r == Deliver(processPaymentCall(s, orderId, s.orders[orderId].total,
                                             paymentMethod, mockSuccess # "false", gatewayOk),
                          notifyOk)
         IN  Respond(r, IF r.result = "ok" THEN 201 ELSE 500)

\* sessionUser is req.session.user.id, 0 without a session; paymentMethod is
\* "" when the body has none
PayOrderRoute(s, sessionUser, orderId, paymentMethod, mockSuccess, gatewayOk, notifyOk) ==
    IF sessionUser = 0 THEN Respond(Threw(s, "Not authenticated"), 401)
    ELSE IF paymentMethod = "" THEN Respond(Threw(s, "Payment method is required"), 400)
    ELSE IF orderId \notin DOMAIN s.orders THEN Respond(Threw(s, "Order not found"), 404)
    ELSE IF s.orders[orderId].userId # sessionUser THEN Respond(Threw(s, "Access denied"), 403)
    ELSE LET r == Deliver(processPaymentCall(s, orderId, s.orders[orderId].total,
                                             paymentMethod, mockSuccess # "false", gatewayOk),
                          notifyOk)
         IN  Respond(r, IF r.result = "ok" THEN 201 ELSE 500)

\* --------------------------------------------------------------- product service
\* a price update that also rewrites the price kept on the product's order items
UpdateProduct_Cascade(s, id, price) ==
    IF getProduct(s.products, id) = 0 THEN Threw(s, "undefined")
    ELSE Returned([s EXCEPT !.products = updateProductPrice(s.products, id, price),
                            !.orderItems = [i \in DOMAIN s.orderItems |->
                                IF s.orderItems[i].productId = id
                                THEN [s.orderItems[i] EXCEPT !.price = price]
                                ELSE s.orderItems[i]]],
                  id, NoWrites)

UpdateProduct(s, id, price) ==
    IF getProduct(s.products, id) = 0 THEN Threw(s, "undefined")
    ELSE Returned([s EXCEPT !.products = updateProductPrice(s.products, id, price)],
                  id, NoWrites)

DeleteProduct(s, id) ==
    IF getProduct(s.products, id) = 0 THEN Threw(s, "false")
    ELSE Returned([s EXCEPT !.products = storageDeleteProduct(s.products, id)], id, NoWrites)

\* a request handler that is not running
Idle == [op |-> "idle"]

\* ------------------------------------------------------------------------ Init
\* the catalogue the store opens with: product 1 is stock-tracked (two units),
\* product 2 has no inventory figure
Catalogue ==
    (1 :> [exists |-> TRUE, price |-> 10, inventory |-> 2])
    @@ (2 :> [exists |-> TRUE, price |-> 5, inventory |-> Null])

\* the same catalogue when one unit of product 1 is left
LastUnitCatalogue == [Catalogue EXCEPT ![1].inventory = 1]

\* ---- cart item routes (routes.ts 715-800) ----
\* request bodies: addItemSchema wants productId positive and quantity >= 1
RouteProductIds == ProductIds \cup {0}
RouteQuantities == {-1, 0} \cup Quantities
CartItemIdInputs == 1 .. MaxCartItems + 1

\* POST /api/cart/items; the id of the session user's cart is handed to
\* cartService.addItemToCart, whose first parameter is a user id
AddItemRoute(s, sessionUser, productId, quantity) ==
    IF sessionUser = 0 THEN Respond(Threw(s, "Not authenticated"), 401)
    ELSE IF productId <= 0 \/ quantity < 1 THEN Respond(Threw(s, "ZodError"), 400)
    ELSE LET userCart == getCartByUserId(s.carts, sessionUser)
             s1 == IF userCart # 0 THEN s
                   ELSE [s EXCEPT !.carts = storageCreateCart(s.carts, sessionUser)]
             cartId == IF userCart # 0 THEN userCart ELSE Len(s.carts) + 1
             r == AddItemToCart(s1, cartId, productId, quantity)
         IN  Respond(r, IF r.result = "ok" THEN 201 ELSE 500)

\* PUT /api/cart/items/:id
UpdateItemRoute(s, sessionUser, id, quantity) ==
    IF sessionUser = 0 THEN Respond(Threw(s, "Not authenticated"), 401)
    ELSE IF quantity < 0 THEN Respond(Threw(s, "Invalid quantity"), 400)
    ELSE LET r == UpdateCartItemQuantity(s, id, quantity)
         IN  IF r.result # "ok" THEN Respond(r, 404)
             ELSE IF getCartByUserId(r.store.carts, sessionUser) = 0 THEN Respond(r, 404)
             ELSE Respond(r, 200)

\* DELETE /api/cart/items/:id
DeleteItemRoute(s, sessionUser, id) ==
    IF sessionUser = 0 THEN Respond(Threw(s, "Not authenticated"), 401)
    ELSE LET r == RemoveCartItem(s, id)
         IN  IF r.result # "ok" THEN Respond(r, 404)
             ELSE IF getCartByUserId(r.store.carts, sessionUser) = 0 THEN Respond(r, 404)
             ELSE Respond(r, 200)

InitWith(catalogue) ==
    /\ impl \in {"mem", "pg"}
    /\ paymentModule \in {"simple", "gateway"}
    /\ stripeConfigured \in BOOLEAN
    /\ paymentModule = "simple" => ~stripeConfigured
    /\ products = catalogue
    /\ carts = <<>>
    /\ cartItems = {}
    /\ cartItemId = 1
    /\ notifications = <<>>
    /\ calls = [r \in Requests |-> Idle]
    /\ orders = <<>>
    /\ orderItems = <<>>
    /\ payments = <<>>

Init == InitWith(Catalogue)

\* --------------------------------------------------------------------- actions
\* storage becomes what a call left
Write(r) ==
    /\ products' = r.store.products
    /\ carts' = r.store.carts
    /\ cartItems' = r.store.cartItems
    /\ cartItemId' = r.store.cartItemId
    /\ orders' = r.store.orders
    /\ orderItems' = r.store.orderItems
    /\ payments' = r.store.payments
    /\ notifications' = r.store.notifications
    /\ UNCHANGED config

\* a call run to completion in one turn of its handler
Commit(r) == Write(r) /\ UNCHANGED calls

WithinBounds(s) ==
    /\ s.cartItemId <= MaxCartItems + 1
    /\ \A it \in s.cartItems : it.quantity <= MaxOf(Quantities)
    /\ Len(s.orders) <= MaxOrders

updateProduct(id, price) == Commit(UpdateProduct(Store, id, price))

deleteProduct(id) == Commit(DeleteProduct(Store, id))

getOrCreateCartForUser(userId) == Commit(GetOrCreateCartForUser(Store, userId))

addItemToCart(userId, productId, quantity) ==
    /\ WithinBounds(AddItemToCart(Store, userId, productId, quantity).store)
    /\ Commit(AddItemToCart(Store, userId, productId, quantity))

updateCartItemQuantity(id, quantity) == Commit(UpdateCartItemQuantity(Store, id, quantity))

removeCartItem(id) == Commit(RemoveCartItem(Store, id))

createOrderFromCart(userId) ==
    /\ WithinBounds(CreateOrderFromCart(Store, userId).store)
    /\ Commit(CreateOrderFromCart(Store, userId))

\* one client placing an order for one unit of a product: POST /api/cart/items
\* followed by POST /api/orders
placeOrder(userId, productId) ==
    LET filled == AddItemToCart(Store, userId, productId, 1)
        placed == CreateOrderFromCart(filled.store, userId)
    IN  /\ \A i \in DOMAIN orders : orders[i].userId # userId
        /\ filled.result = "ok"
        /\ Commit(placed)

setOrderStatus(orderId, status) == Commit(UpdateOrderStatus(Store, orderId, status))

processPaymentSimple(orderId, amount, paymentMethod, mockSuccess) ==
    /\ paymentModule = "simple"
    /\ Commit(ProcessPaymentSimple(Store, orderId, amount, paymentMethod, mockSuccess))

\* the in-process notification service writes its service status through
\* storage before it pushes the row: with MemStorage that cannot fail, with
\* PgStorage it is a database statement of its own
NotifyOutcomes == IF impl = "pg" THEN BOOLEAN ELSE {TRUE}

payOrder(sessionUser, orderId, paymentMethod, mockSuccess, gatewayOk, notifyOk) ==
    /\ notifyOk \in NotifyOutcomes
    /\ Commit(PayOrderRoute(Store, sessionUser, orderId, paymentMethod, mockSuccess,
                            gatewayOk, notifyOk))

processPayment(orderId, amount, paymentMethod, mockSuccess, gatewayOk, notifyOk) ==
    /\ paymentModule = "gateway"
    /\ notifyOk \in NotifyOutcomes
    /\ Commit(Deliver(ProcessPayment(Store, orderId, amount, paymentMethod, mockSuccess,
                                     gatewayOk), notifyOk))

createStripeCheckoutSession(orderId) ==
    /\ paymentModule = "gateway"
    /\ Commit(CreateStripeCheckoutSession(Store, orderId))

processRefund(paymentId, amount, refundOk, notifyOk) ==
    /\ paymentModule = "gateway"
    /\ notifyOk \in NotifyOutcomes
    /\ Commit(Deliver(ProcessRefund(Store, paymentId, amount, refundOk), notifyOk))

\* ----------------------------------------------------- handlers that interleave
\* Every PgStorage call awaits a database round trip, so the handler of a
\* second request can run between two storage calls of the first.  (The
\* MemStorage calls resolve without leaving the handler's turn.)  A handler in
\* flight keeps what it has read in calls[r]; each step below is a stretch of
\* one handler between two such awaits.
Interleaves == impl = "pg"

InFlight(op) == {r \in Requests : calls[r].op = op}

Begin(r, call) ==
    /\ calls[r].op = "idle"
    /\ calls' = [calls EXCEPT ![r] = call]
    /\ UNCHANGED <<config, products, carts, cartItems, cartItemId, orders, orderItems,
                   payments, notifications>>

End(r) == calls' = [calls EXCEPT ![r] = Idle]

\* GET /api/cart: "Ensure cart exists" reads the user's cart ...
getCartLookup(r, userId) ==
    /\ Interleaves
    /\ Begin(r, [op |-> "getCart", userId |-> userId,
                 userCart |-> getCartByUserId(carts, userId)])

\* ... and creates one if the read found none
getCartCreate(r) ==
    /\ calls[r].op = "getCart"
    /\ Write(IF calls[r].userCart = 0
             THEN Returned([Store EXCEPT !.carts = storageCreateCart(@, calls[r].userId)],
                           Len(carts) + 1, NoWrites)
             ELSE Returned(Store, calls[r].userCart, NoWrites))
    /\ End(r)

\* processPayment up to the existing-payment lookup, which finds nothing ...
processPaymentGuard(r, orderId, amount, paymentMethod, mockSuccess) ==
    /\ Interleaves
    /\ paymentModule = "gateway" => orderId \in DOMAIN orders
    /\ getPaymentByOrderId(payments, orderId) = 0
    /\ Begin(r, [op |-> "processPayment", orderId |-> orderId, amount |-> amount,
                 paymentMethod |-> paymentMethod, mockSuccess |-> mockSuccess])

\* what the rest of that processPayment call does to storage s
PaymentAfterGuard(s, call, gatewayOk) ==
    IF paymentModule = "simple"
    THEN PaymentAfterGuardSimple(s, call.orderId, call.amount, call.paymentMethod,
                                 call.mockSuccess)
    ELSE PaymentAfterCreate(s, storageCreatePayment(s.payments, call.orderId, call.amount,
                                                    "pending", call.paymentMethod, "none"),
                            call.orderId, call.amount, call.paymentMethod,
                            call.mockSuccess, gatewayOk)

\* ... and from storage.createPayment on
processPaymentCreate(r, gatewayOk, notifyOk) ==
    /\ calls[r].op = "processPayment"
    /\ notifyOk \in NotifyOutcomes
    /\ Write(Deliver(PaymentAfterGuard(Store, calls[r], gatewayOk), notifyOk))
    /\ End(r)

\* createOrderFromCart up to the cart read, which finds items ...
createOrderRead(r, userId) ==
    LET cid == getCartByUserId(carts, userId)
        cartWithItems == getCartWithItems(carts, cartItems, products, cid)
    IN  /\ Interleaves
        /\ cid # 0
        /\ cartWithItems.found
        /\ Len(cartWithItems.items) > 0
        /\ Len(orders) + Cardinality(InFlight("createOrderFromCart")) < MaxOrders
        /\ Begin(r, [op |-> "createOrderFromCart", userId |-> userId,
                     cartWithItems |-> cartWithItems])

\* ... and from "Create the order" on
createOrderWrite(r) ==
    /\ calls[r].op = "createOrderFromCart"
    /\ Write(OrderFromCartWithItems(Store, calls[r].userId, calls[r].cartWithItems))
    /\ End(r)

\* catalogue, cart and order placement; the administrator reprices product 1
\* and withdraws product 2
NextOrder ==
    \/ \E price \in Prices : updateProduct(1, price)
    \/ deleteProduct(2)
    \/ \E u \in Users : getOrCreateCartForUser(u)
    \/ \E u \in Users, p \in ProductIds, q \in Quantities : addItemToCart(u, p, q)
    \/ \E id \in 1..MaxCartItems, q \in {0} \cup Quantities : updateCartItemQuantity(id, q)
    \/ \E id \in 1..MaxCartItems : removeCartItem(id)
    \/ \E u \in Users : createOrderFromCart(u)

\* placed orders, their status and their payments
NextPayment ==
    \/ \E u \in Users : placeOrder(u, 1)
    \/ \E o \in OrderIdInputs, st \in OrderStatus : setOrderStatus(o, st)
    \/ \E o \in OrderIdInputs, a \in Amounts, m \in Methods, ms \in BOOLEAN :
          processPaymentSimple(o, a, m, ms)
    \/ \E o \in OrderIdInputs, a \in Amounts, m \in Methods, ms \in BOOLEAN, gw \in BOOLEAN,
          nt \in BOOLEAN :
          processPayment(o, a, m, ms, gw, nt)
    \/ \E o \in OrderIdInputs : createStripeCheckoutSession(o)
    \/ \E pid \in PaymentIdInputs, a \in Amounts \cup {Null}, ok \in BOOLEAN, nt \in BOOLEAN :
          processRefund(pid, a, ok, nt)

\* two requests for the cart in flight together
NextCartRace ==
    \/ \E u \in Users : addItemToCart(u, 1, 1)
    \/ \E r \in Requests, u \in Users : getCartLookup(r, u)
    \/ \E r \in Requests : getCartCreate(r)

\* two orders being placed together
NextOrderRace ==
    \/ \E u \in Users, q \in Quantities : addItemToCart(u, 1, q)
    \/ \E r \in Requests, u \in Users : createOrderRead(r, u)
    \/ \E r \in Requests : createOrderWrite(r)

\* two payments being made together
NextPaymentRace ==
    \/ \E u \in Users : placeOrder(u, 1)
    \/ \E r \in Requests, o \in OrderIdInputs, m \in Methods, ms \in BOOLEAN :
          processPaymentGuard(r, o, MaxOf(Amounts), m, ms)
    \/ \E r \in Requests, gw \in BOOLEAN, nt \in BOOLEAN : processPaymentCreate(r, gw, nt)

\* addItemToCart up to the product lookup: the cart is found or created and
\* the product exists ...
addItemResolve(r, userId, productId, quantity) ==
    LET got == GetOrCreateCartForUser(Store, userId)
    IN  /\ Interleaves
        /\ calls[r].op = "idle"
        /\ getProduct(products, productId) # 0
        /\ cartItemId + Cardinality(InFlight("addItemToCart")) <= MaxCartItems
        /\ Write(got)
        /\ calls' = [calls EXCEPT ![r] = [op |-> "addItemToCart", cartId |-> got.ret,
                                          productId |-> productId, quantity |-> quantity]]

\* what storage.addCartItem of that call does to storage s
AddCartItemOf(s, call) ==
    LET added == addCartItem(impl, s.cartItems, s.cartItemId, call.cartId, call.productId,
                             call.quantity)
    IN  Returned([s EXCEPT !.cartItems = added.items, !.cartItemId = added.nextId],
                 call.cartId, NoWrites)

\* ... and storage.addCartItem
addItemInsert(r) ==
    /\ calls[r].op = "addItemToCart"
    /\ Write(AddCartItemOf(Store, calls[r]))
    /\ End(r)

\* two additions to a cart in flight together
NextAddItemRace ==
    \/ \E r \in Requests, u \in Users, p \in ProductIds, q \in Quantities :
          addItemResolve(r, u, p, q)
    \/ \E r \in Requests : addItemInsert(r)
    \/ \E id \in 1..MaxCartItems : removeCartItem(id)

\* MemStorage.createOrder when its id counter stands at id: the handler holds
\* the order it got back, of which the numeric id and the orderId string are
\* kept
createOrderAt(r, id) ==
    /\ impl = "mem"
    /\ Begin(r, [op |-> "createOrder", id |-> id, orderId |-> FormatOrderId(id)])

\* the handler returns
createOrderReturn(r) ==
    /\ calls[r].op = "createOrder"
    /\ End(r)
    /\ UNCHANGED <<config, products, carts, cartItems, cartItemId, orders, orderItems,
                   payments, notifications>>

NextOrderId ==
    \/ \E r \in Requests, id \in OrderIdSamples : createOrderAt(r, id)
    \/ \E r \in Requests : createOrderReturn(r)

\* orders placed, moved along and paid through the payment route
postCartItem(sessionUser, productId, quantity) ==
    /\ WithinBounds(AddItemRoute(Store, sessionUser, productId, quantity).store)
    /\ Commit(AddItemRoute(Store, sessionUser, productId, quantity))

putCartItem(sessionUser, id, quantity) ==
    /\ id \in CartItemIdInputs
    /\ Commit(UpdateItemRoute(Store, sessionUser, id, quantity))

deleteCartItem(sessionUser, id) ==
    /\ id \in CartItemIdInputs
    /\ Commit(DeleteItemRoute(Store, sessionUser, id))

NextCartRoute ==
    \/ \E u \in Users \cup {0}, p \in RouteProductIds, q \in RouteQuantities : postCartItem(u, p, q)
    \/ \E u \in Users \cup {0}, id \in CartItemIdInputs, q \in RouteQuantities : putCartItem(u, id, q)
    \/ \E u \in Users \cup {0}, id \in CartItemIdInputs : deleteCartItem(u, id)

NextPayRoute ==
    \/ \E u \in Users : placeOrder(u, 1)
    \/ \E o \in OrderIdInputs, st \in OrderStatus : setOrderStatus(o, st)
    \/ \E su \in Users \cup {0}, o \in OrderIdInputs, m \in Methods \cup {""},
          ms \in MockSuccessInputs, gw \in BOOLEAN, nt \in BOOLEAN :
          payOrder(su, o, m, ms, gw, nt)

NextRace ==
    NextCartRace \/ NextOrderRace \/ NextPaymentRace \/ NextOrderId \/ NextAddItemRace

Next == NextOrder \/ NextPayment \/ NextPayRoute \/ NextCartRoute \/ NextRace

Spec == Init /\ [][Next]_vars

\* the order scenario does not touch payments: one payment configuration
InitOrder == Init /\ paymentModule = "gateway" /\ ~stripeConfigured

SpecOrder == InitOrder /\ [][NextOrder]_vars

\* the payment scenario reads and writes orders and payments through storage
\* methods that are alike in both implementations: one storage implementation
InitPayment == Init /\ impl = "mem"

SpecPayment == InitPayment /\ [][NextPayment]_vars

SpecPayRoute == Init /\ [][NextPayRoute]_vars

SpecCartRoute == InitOrder /\ [][NextCartRoute]_vars

\* order ids as MemStorage renders them
InitOrderId == Init /\ impl = "mem" /\ paymentModule = "gateway" /\ ~stripeConfigured

SpecOrderId == InitOrderId /\ [][NextOrderId]_vars

\* interleaving handlers need PgStorage
InitRace == Init /\ impl = "pg"

InitCartRace == InitRace /\ paymentModule = "gateway" /\ ~stripeConfigured

SpecCartRace == InitCartRace /\ [][NextCartRace]_vars

\* ... with one unit of product 1 left
InitOrderRace ==
    InitWith(LastUnitCatalogue) /\ impl = "pg" /\ paymentModule = "gateway" /\ ~stripeConfigured

SpecOrderRace == InitOrderRace /\ [][NextOrderRace]_vars

SpecAddItemRace == InitCartRace /\ [][NextAddItemRace]_vars

SpecPaymentRace == InitRace /\ [][NextPaymentRace]_vars

\* ============================================================== properties
\* the payment rows of an order, read off the table itself
PaymentsOf(pays, orderId) == {i \in DOMAIN pays : pays[i].orderId = orderId}

\* the Stripe branch of processPayment is taken: gateway module, key
\* configured, method "stripe"
StripeBranch(paymentMethod) ==
    paymentModule = "gateway" /\ stripeConfigured /\ paymentMethod = "stripe"

\* -------------------------------------------------------------------------
\* C1: for every order, the first processPayment creates one Payment and a
\* second processPayment on the same order (any amount, method, mockSuccess)
\* fails with "payment already exists" and creates nothing; at every moment
\* there is at most one Payment row per orderId.
C1_OnePaymentPerOrder ==
    /\ \A i, j \in DOMAIN payments : payments[i].orderId = payments[j].orderId => i = j
    /\ \A o \in DOMAIN orders, a \in Amounts, m \in Methods, ms \in BOOLEAN, gw \in BOOLEAN :
         LET call == processPaymentCall(Store, o, a, m, ms, gw)
         IN  IF PaymentsOf(payments, o) = {}
             THEN \* a first call: one more row, and it is the order's only one
                  /\ call.result = "ok"
                  /\ Len(call.store.payments) = Len(payments) + 1
                  /\ PaymentsOf(call.store.payments, o) = {call.ret}
             ELSE \* a call after the first: refused, nothing written
                  /\ call.result = "Payment already exists"
                  /\ call.store = Store

\* an order that has been paid for once and on which a further call is refused
C1_Witness ==
    \E o \in DOMAIN orders :
        /\ Cardinality(PaymentsOf(payments, o)) = 1
        /\ processPaymentCall(Store, o, 5, "credit_card", TRUE, TRUE).result
              = "Payment already exists"

\* -------------------------------------------------------------------------
\* C2 as stated: for a pending order without a Payment, processPayment with
\* mockSuccess = true returns a completed Payment and leaves the order
\* processing.
C2_Original ==
    \A o \in DOMAIN orders, a \in Amounts, m \in Methods, gw \in BOOLEAN :
        (orders[o].status = "pending" /\ PaymentsOf(payments, o) = {}) =>
            LET r == processPaymentCall(Store, o, a, m, TRUE, gw)
            IN  /\ r.result = "ok"
                /\ r.store.payments[r.ret].status = "completed"
                /\ r.store.orders[o].status = "processing"

\* C2 (amended): for a pending order without a Payment, processPayment with
\* mockSuccess = true returns a completed Payment and leaves the order
\* processing, except on the Stripe branch when creating the payment intent
\* fails: then the Payment returned is failed and the order stays pending.
C2_SuccessAdvancesOrder ==
    \A o \in DOMAIN orders, a \in Amounts, m \in Methods, gw \in BOOLEAN :
        (orders[o].status = "pending" /\ PaymentsOf(payments, o) = {}) =>
            LET r == processPaymentCall(Store, o, a, m, TRUE, gw)
            IN  /\ r.result = "ok"
                /\ r.store.payments[r.ret].orderId = o
                /\ r.store.payments[r.ret].amount = a
                /\ IF StripeBranch(m) /\ ~gw
                   THEN /\ r.store.payments[r.ret].status = "failed"
                        /\ r.store.orders[o].status = "pending"
                   ELSE /\ r.store.payments[r.ret].status = "completed"
                        /\ r.store.orders[o].status = "processing"

\* a completed Payment whose order is processing
C2_Witness ==
    \E i \in DOMAIN payments :
        /\ payments[i].status = "completed"
        /\ payments[i].orderId \in DOMAIN orders
        /\ orders[payments[i].orderId].status = "processing"

\* -------------------------------------------------------------------------
\* what a processPayment call left untouched: orders, order items, products,
\* carts and cart items
C3_Frame(r) ==
    /\ r.store.orders = orders
    /\ r.store.orderItems = orderItems
    /\ r.store.products = products
    /\ r.store.carts = carts
    /\ r.store.cartItems = cartItems

\* C3 as stated: for an existing order without a Payment, processPayment with
\* mockSuccess = false creates a Payment whose final status is failed and
\* changes no order, product or cart.
C3_Original ==
    \A o \in DOMAIN orders, a \in Amounts, m \in Methods, gw \in BOOLEAN :
        PaymentsOf(payments, o) = {} =>
            LET r == processPaymentCall(Store, o, a, m, FALSE, gw)
            IN  /\ r.result = "ok"
                /\ Len(r.store.payments) = Len(payments) + 1
                /\ r.store.payments[r.ret].status = "failed"
                /\ C3_Frame(r)

\* C3 (amended): for an existing order without a Payment, processPayment with
\* mockSuccess = false creates a Payment whose final status is failed, or
\* pending on the Stripe branch when the payment intent was created; in
\* every case the order's status is as before and no other order, product or
\* cart is changed.
C3_FailureLeavesOrder ==
    \A o \in DOMAIN orders, a \in Amounts, m \in Methods, gw \in BOOLEAN :
        PaymentsOf(payments, o) = {} =>
            LET r == processPaymentCall(Store, o, a, m, FALSE, gw)
            IN  /\ r.result = "ok"
                /\ Len(r.store.payments) = Len(payments) + 1
                /\ r.store.payments[r.ret].orderId = o
                /\ r.store.payments[r.ret].status =
                       IF StripeBranch(m) /\ gw THEN "pending" ELSE "failed"
                /\ C3_Frame(r)

\* a failed Payment whose order is still pending
C3_Witness ==
    \E i \in DOMAIN payments :
        /\ payments[i].status = "failed"
        /\ payments[i].orderId \in DOMAIN orders
        /\ orders[payments[i].orderId].status = "pending"

\* -------------------------------------------------------------------------
\* the edges of the payment status machine
C4_Edges == {<<"pending", "completed">>, <<"pending", "failed">>, <<"completed", "refunded">>}

\* every storage.updatePaymentStatus write of a call either rewrites the
\* status the row already has or follows an edge
C4_WritesFollowEdges(writes) ==
    \A k \in DOMAIN writes :
        writes[k][2] = writes[k][3] \/ <<writes[k][2], writes[k][3]>> \in C4_Edges

\* ... for every call the payment workflow can make in the current state
C4_EveryCall ==
    /\ \A o \in OrderIdInputs, a \in Amounts, m \in Methods, ms \in BOOLEAN, gw \in BOOLEAN :
          C4_WritesFollowEdges(processPaymentCall(Store, o, a, m, ms, gw).writes)
    /\ paymentModule = "gateway" =>
          /\ \A o \in OrderIdInputs :
                C4_WritesFollowEdges(CreateStripeCheckoutSession(Store, o).writes)
          /\ \A pid \in PaymentIdInputs, a \in Amounts \cup {Null}, ok \in BOOLEAN :
                C4_WritesFollowEdges(ProcessRefund(Store, pid, a, ok).writes)

\* ... and from one call to the next a Payment row stays, changes status only
\* along an edge, becomes refunded only together with its order becoming
\* cancelled, and a new row ends pending, completed or failed
C4_Step ==
    /\ \A i \in DOMAIN payments :
          /\ i \in DOMAIN payments'
          /\ payments'[i].status # payments[i].status =>
                /\ <<payments[i].status, payments'[i].status>> \in C4_Edges
                /\ payments'[i].status = "refunded" =>
                      /\ payments[i].orderId \in DOMAIN orders'
                      /\ orders'[payments[i].orderId].status = "cancelled"
    /\ \A i \in DOMAIN payments' \ DOMAIN payments :
          payments'[i].status \in {"pending", "completed", "failed"}

\* C4: under processPayment, createStripeCheckoutSession and processRefund a
\* Payment's status only ever changes pending -> completed, pending -> failed
\* or completed -> refunded; failed and refunded are terminal; refunded is
\* reached only from completed, in a step that also sets the order cancelled.
C4_StatusMachine == []C4_EveryCall /\ [][C4_Step]_vars

\* both terminal states have been reached: one Payment refunded with its order
\* cancelled, another failed
C4_Witness ==
    \E i, j \in DOMAIN payments :
        /\ payments[i].status = "refunded"
        /\ orders[payments[i].orderId].status = "cancelled"
        /\ payments[j].status = "failed"

\* -------------------------------------------------------------------------
\* C5: processRefund(paymentId, amount?) on a completed Payment sets it to
\* refunded and its order to cancelled and leaves Payment.amount (and every
\* other row) as it was, whether or not a partial amount is asked for.
C5_RefundCompleted ==
    paymentModule = "gateway" =>
        \A pid \in DOMAIN payments, a \in Amounts \cup {Null}, ok \in BOOLEAN :
            payments[pid].status = "completed" =>
                LET r == ProcessRefund(Store, pid, a, ok)
                IN  /\ r.result = "ok"
                    /\ r.store.payments = [payments EXCEPT ![pid].status = "refunded"]
                    /\ r.store.payments[pid].amount = payments[pid].amount
                    /\ r.store.orders =
                           [orders EXCEPT ![payments[pid].orderId].status = "cancelled"]

\* a refunded Payment that still carries an amount smaller than its order's
\* total, its order cancelled
C5_Witness ==
    \E i \in DOMAIN payments :
        /\ payments[i].status = "refunded"
        /\ payments[i].amount = 5
        /\ orders[payments[i].orderId].total = 10
        /\ orders[payments[i].orderId].status = "cancelled"

\* -------------------------------------------------------------------------
\* C6: processRefund on a pending, failed or refunded Payment fails with
\* "cannot refund payment with status X" and changes neither the Payment nor
\* its order (nor anything else); so a second refund is rejected.
C6_RefundRejected ==
    paymentModule = "gateway" =>
        \A pid \in DOMAIN payments, a \in Amounts \cup {Null}, ok \in BOOLEAN :
            payments[pid].status \in {"pending", "failed", "refunded"} =>
                LET r == ProcessRefund(Store, pid, a, ok)
                IN  /\ r.result = "Cannot refund payment"
                    /\ r.store = Store

\* a Payment already refunded, a pending one beside it, and a refund of
\* either is refused
C6_Witness ==
    \E i, j \in DOMAIN payments :
        /\ payments[i].status = "refunded"
        /\ payments[j].status = "pending"
        /\ ProcessRefund(Store, i, Null, TRUE).result = "Cannot refund payment"
        /\ ProcessRefund(Store, j, Null, TRUE).result = "Cannot refund payment"

\* -------------------------------------------------------------------------
\* the cart row of a user and its lines, read off the tables themselves
CartsOf(userId) == {c \in DOMAIN carts : carts[c].userId = userId}

LinesOf(userId) == {it \in cartItems : it.cartId \in CartsOf(userId)}

\* the lines whose product is still in the catalogue
LiveLinesOf(userId) == {it \in LinesOf(userId) : products[it.productId].exists}

\* sum over a set of cart lines of unit price now x quantity
RECURSIVE LinesTotal(_)
LinesTotal(lines) ==
    IF lines = {} THEN 0
    ELSE LET it == CHOOSE x \in lines : TRUE
         IN  products[it.productId].price * it.quantity + LinesTotal(lines \ {it})

\* the call created exactly one order for the user, pending, with this total
C7_OneOrder(r, userId, total) ==
    /\ r.result = "ok"
    /\ Len(r.store.orders) = Len(orders) + 1
    /\ SubSeq(r.store.orders, 1, Len(orders)) = orders
    /\ r.ret = Len(orders) + 1
    /\ r.store.orders[r.ret] = [userId |-> userId, status |-> "pending", total |-> total]

\* the call added, for the new order, exactly one order item per line of
\* `lines`, with the line's productId and quantity and the product's price
C7_OneItemPerLine(r, lines) ==
    LET old == Len(orderItems)
        new == {i \in DOMAIN r.store.orderItems : i > old}
    IN  /\ SubSeq(r.store.orderItems, 1, old) = orderItems
        /\ Cardinality(new) = Cardinality(lines)
        /\ \A i \in new : r.store.orderItems[i].orderId = r.ret
        /\ \A p \in ProductIds, q \in 0..MaxOf(Quantities) :
              Cardinality({it \in lines : it.productId = p /\ it.quantity = q})
              = Cardinality({i \in new : /\ r.store.orderItems[i].productId = p
                                         /\ r.store.orderItems[i].quantity = q
                                         /\ r.store.orderItems[i].price = products[p].price})

\* C7 as stated: for every user whose cart holds at least one item,
\* createOrderFromCart creates exactly one pending Order with total = sum
\* over the cart lines of price x quantity, and one OrderItem per cart line.
C7_Original ==
    \A u \in Users :
        LinesOf(u) # {} =>
            LET r == CreateOrderFromCart(Store, u)
            IN  /\ C7_OneOrder(r, u, LinesTotal(LinesOf(u)))
                /\ C7_OneItemPerLine(r, LinesOf(u))

\* C7 (amended): for every user whose cart holds at least one line whose
\* product still exists, createOrderFromCart creates exactly one pending Order
\* with total = sum over those lines of (unit price at call time x
\* quantity) and exactly one OrderItem per such line, carrying its productId,
\* quantity and the unit price at call time; lines whose product has been
\* deleted add nothing to the order, and a cart holding only such lines is
\* refused as empty.
C7_OrderFromLiveLines ==
    \A u \in Users :
        LinesOf(u) # {} =>
            LET r == CreateOrderFromCart(Store, u)
            IN  IF LiveLinesOf(u) # {}
                THEN /\ C7_OneOrder(r, u, LinesTotal(LiveLinesOf(u)))
                     /\ C7_OneItemPerLine(r, LiveLinesOf(u))
                ELSE /\ r.result = "Cart is empty"
                     /\ r.store = Store

\* an order of two items, one of them of quantity 2, with the total of its
\* items
C7_Witness ==
    \E o \in DOMAIN orders :
        LET its == getOrderItems(orderItems, o)
        IN  /\ Cardinality(its) = 2
            /\ \E i \in its : orderItems[i].quantity = 2
            /\ \E i, j \in its :
                  /\ i # j
                  /\ orders[o].total = orderItems[i].price * orderItems[i].quantity
                                       + orderItems[j].price * orderItems[j].quantity

\* -------------------------------------------------------------------------
\* C8: after every successful createOrderFromCart for a user, the user's Cart
\* row still exists and has zero CartItems, lines of deleted products
\* included.
C8_CartEmptiedOriginal ==
    \A u \in Users :
        LET r == CreateOrderFromCart(Store, u)
        IN  r.result = "ok" =>
               /\ r.store.carts = carts
               /\ CartsOf(u) # {}
               /\ \A it \in r.store.cartItems : it.cartId \notin CartsOf(u)

\* -------------------------------------------------------------------------
\* C9: createOrderFromCart fails when the user has no Cart, and fails with
\* "cart is empty" when the user's Cart has no CartItems; in both cases no
\* Order or OrderItem is created and no inventory (nor anything else) changes.
C9_NoCartOrEmptyCart ==
    \A u \in Users :
        LET r == CreateOrderFromCart(Store, u)
        IN  /\ CartsOf(u) = {} => r.result = "Cart not found" /\ r.store = Store
            /\ (CartsOf(u) # {} /\ LinesOf(u) = {}) =>
                   r.result = "Cart is empty" /\ r.store = Store

\* one user has ordered and has an empty cart again, another has carts of
\* others beside them and none of their own
C9_Witness ==
    \E u, v \in Users :
        /\ CartsOf(u) # {} /\ LinesOf(u) = {}
        /\ \E o \in DOMAIN orders : orders[o].userId = u
        /\ CartsOf(v) = {}
        /\ CreateOrderFromCart(Store, u).result = "Cart is empty"
        /\ CreateOrderFromCart(Store, v).result = "Cart not found"

\* -------------------------------------------------------------------------
\* total quantity of a product over a set of cart lines
RECURSIVE QuantityOf(_, _)
QuantityOf(lines, p) ==
    IF lines = {} THEN 0
    ELSE LET it == CHOOSE x \in lines : TRUE
         IN  (IF it.productId = p THEN it.quantity ELSE 0) + QuantityOf(lines \ {it}, p)

\* C10: for every product with a non-null inventory that appears in an order
\* created by createOrderFromCart, the inventory after the call is
\* max(0, inventory before - total quantity ordered of that product); no
\* inventory is ever below 0.
C10_InventoryOriginal ==
    /\ \A p \in ProductIds : products[p].inventory = Null \/ products[p].inventory >= 0
    /\ \A u \in Users :
         LET r == CreateOrderFromCart(Store, u)
         IN  r.result = "ok" =>
               \A p \in ProductIds :
                   (/\ products[p].exists
                    /\ products[p].inventory # Null
                    /\ \E it \in LiveLinesOf(u) : it.productId = p) =>
                       r.store.products[p].inventory
                         = Max(0, products[p].inventory - QuantityOf(LiveLinesOf(u), p))

\* -------------------------------------------------------------------------
\* updateProduct with any price and deleteProduct, called in the current
\* state, leave the order items and the orders as they are
C11_EveryCall ==
    \A id \in ProductIds :
        /\ \A price \in Prices :
              LET r == UpdateProduct(Store, id, price)
              IN  r.store.orderItems = orderItems /\ r.store.orders = orders
        /\ LET r == DeleteProduct(Store, id)
           IN  r.store.orderItems = orderItems /\ r.store.orders = orders

\* from one call to the next every order item written keeps its price and
\* every order its total
C11_Step ==
    /\ \A i \in DOMAIN orderItems :
          i \in DOMAIN orderItems' /\ orderItems'[i].price = orderItems[i].price
    /\ \A o \in DOMAIN orders :
          o \in DOMAIN orders' /\ orders'[o].total = orders[o].total

\* C11: once an OrderItem has been written, its price and its order's total
\* never change: a later updateProduct that changes the product's price, or
\* deleteProduct, leaves every OrderItem.price and Order.total as it was.
C11_PriceSnapshot == []C11_EveryCall /\ [][C11_Step]_vars

\* an order holding an item bought at 10 of a product now priced 5 and an
\* item of a product deleted since, its total still the sum of its items
C11_Witness ==
    \E o \in DOMAIN orders :
        \E i, j \in getOrderItems(orderItems, o) :
            /\ orderItems[i].price = 10
            /\ products[orderItems[i].productId].exists
            /\ products[orderItems[i].productId].price = 5
            /\ ~products[orderItems[j].productId].exists
            /\ orders[o].total = orderItems[i].price * orderItems[i].quantity
                                 + orderItems[j].price * orderItems[j].quantity

\* -------------------------------------------------------------------------
\* C12: in every reachable state there is at most one CartItem per (cartId,
\* productId) pair: addItemToCart for a product already in the cart adds the
\* quantity to the existing row and creates no row, whichever storage
\* implementation is behind the cart service.
C12_OneLinePerProduct ==
    /\ \A a, b \in cartItems :
          (a.cartId = b.cartId /\ a.productId = b.productId) => a.id = b.id
    /\ \A u \in Users, p \in ProductIds, q \in Quantities :
          \A it \in LinesOf(u) :
              (it.productId = p /\ products[p].exists) =>
                  LET r == AddItemToCart(Store, u, p, q)
                  IN  /\ r.result = "ok"
                      /\ r.store.cartItems =
                             (cartItems \ {it}) \cup {[it EXCEPT !.quantity = @ + q]}

\* -------------------------------------------------------------------------
\* C13: in every reachable state at most one Cart row exists per userId,
\* whatever the order in which GET /api/cart requests of one user read and
\* create the cart, requests in flight together included.
C13_OneCartPerUser ==
    \A i, j \in DOMAIN carts : carts[i].userId = carts[j].userId => i = j

\* -------------------------------------------------------------------------
\* C14: two processPayment calls for one order that have both passed the
\* existing-payment check can both run to the end: whichever finishes first,
\* each call returns its own new Payment row for that order, so the order
\* ends with two rows more than before.
C14_BothPaymentsWritten ==
    \A r1, r2 \in InFlight("processPayment") :
        (r1 # r2 /\ calls[r1].orderId = calls[r2].orderId) =>
            \A gw1, gw2 \in BOOLEAN :
                LET o == calls[r1].orderId
                    first == Deliver(PaymentAfterGuard(Store, calls[r1], gw1), TRUE)
                    second == Deliver(PaymentAfterGuard(first.store, calls[r2], gw2), TRUE)
                IN  /\ first.result = "ok"
                    /\ second.result = "ok"
                    /\ first.ret # second.ret
                    /\ second.store.payments[first.ret].orderId = o
                    /\ second.store.payments[second.ret].orderId = o
                    /\ Cardinality(PaymentsOf(second.store.payments, o))
                           = Cardinality(PaymentsOf(payments, o)) + 2

\* both calls have returned: one order has two completed payments
C14_Witness ==
    /\ InFlight("processPayment") = {}
    /\ \E i, j \in DOMAIN payments :
          /\ i # j
          /\ payments[i].orderId = payments[j].orderId
          /\ payments[i].status = "completed"
          /\ payments[j].status = "completed"

\* -------------------------------------------------------------------------
\* the call read a cart line of product 1 when one unit of it was in stock
ReadLastUnit(call) ==
    \E k \in DOMAIN call.cartWithItems.items :
        /\ call.cartWithItems.items[k].productId = 1
        /\ call.cartWithItems.items[k].product.inventory = 1

HasItemOf(oitems, orderId, productId) ==
    \E i \in getOrderItems(oitems, orderId) : oitems[i].productId = productId

\* C15: two createOrderFromCart calls of different users in flight together,
\* each having read the last unit of a product in its cart, both succeed in
\* whichever order they finish: each creates its own order with an item of
\* that product, the inventory ends at 0 and neither call fails for lack of
\* stock.
C15_LastUnitSoldTwice ==
    \A r1, r2 \in InFlight("createOrderFromCart") :
        (/\ r1 # r2
         /\ calls[r1].userId # calls[r2].userId
         /\ ReadLastUnit(calls[r1])
         /\ ReadLastUnit(calls[r2])) =>
            LET first == OrderFromCartWithItems(Store, calls[r1].userId,
                                                calls[r1].cartWithItems)
                second == OrderFromCartWithItems(first.store, calls[r2].userId,
                                                 calls[r2].cartWithItems)
                final == second.store
            IN  /\ first.result = "ok"
                /\ second.result = "ok"
                /\ first.ret # second.ret
                /\ final.orders[first.ret].userId = calls[r1].userId
                /\ final.orders[second.ret].userId = calls[r2].userId
                /\ HasItemOf(final.orderItems, first.ret, 1)
                /\ HasItemOf(final.orderItems, second.ret, 1)
                /\ final.products[1].inventory = 0

\* both calls have returned: two users each hold an order with an item of
\* product 1, of which one unit existed, and none is left
C15_Witness ==
    /\ InFlight("createOrderFromCart") = {}
    /\ products[1].inventory = 0
    /\ \E o1, o2 \in DOMAIN orders :
          /\ orders[o1].userId # orders[o2].userId
          /\ HasItemOf(orderItems, o1, 1)
          /\ HasItemOf(orderItems, o2, 1)

\* -------------------------------------------------------------------------
\* C16: a notification call that fails never makes the operation that sent it
\* fail: processPayment and processRefund return what they return when the
\* notification goes through, and their writes stay.
C16_NotificationFailureContained ==
    paymentModule = "gateway" =>
        /\ \A o \in OrderIdInputs, a \in Amounts, m \in Methods, ms, gw \in BOOLEAN :
              \A nt \in NotifyOutcomes :
                  LET plain == ProcessPayment(Store, o, a, m, ms, gw)
                      call == Deliver(plain, nt)
                  IN  /\ call.result = plain.result
                      /\ call.ret = plain.ret
                      /\ call.store.payments = plain.store.payments
                      /\ call.store.orders = plain.store.orders
        /\ \A id \in PaymentIdInputs, ok \in BOOLEAN :
              \A nt \in NotifyOutcomes :
                  LET plain == ProcessRefund(Store, id, 0, ok)
                      call == Deliver(plain, nt)
                  IN  /\ call.result = plain.result
                      /\ call.ret = plain.ret
                      /\ call.store.payments = plain.store.payments
                      /\ call.store.orders = plain.store.orders

\* -------------------------------------------------------------------------
Sent(n) == {k \in DOMAIN notifications : notifications[k] = n}

\* C17: every order created by createOrderFromCart has exactly one order
\* confirmation, sent to the user who placed it and carrying the order's id.
C17_OrderConfirmationSent ==
    \A o \in DOMAIN orders :
        Cardinality(Sent(sendOrderConfirmation(orders[o].userId, o))) = 1

\* -------------------------------------------------------------------------
\* C18: every order whose status has been moved by updateOrderStatus (set
\* directly, to processing by a payment, to cancelled by a refund) has a
\* status-update notification to its owner carrying its id and that status.
C18_StatusUpdateSent ==
    \A o \in DOMAIN orders :
        orders[o].status # "pending" =>
            Sent(sendOrderStatusUpdate(orders[o].userId, o, orders[o].status)) # {}

\* -------------------------------------------------------------------------
\* the payment confirmations sent for a payment's order and amount
ConfirmationsOf(pay) ==
    {k \in DOMAIN notifications :
        /\ notifications[k].kind = "Payment Confirmation"
        /\ notifications[k].orderId = pay.orderId
        /\ notifications[k].amount = pay.amount}

\* C19: a payment that processPayment ended as completed (refunded since or
\* not) has exactly one payment confirmation, addressed to the owner of its
\* order and carrying the order id and the amount; a payment that did not
\* end completed has none.
C19_ConfirmationIffCompleted ==
    \A p \in DOMAIN payments :
        IF payments[p].status \in {"completed", "refunded"}
        THEN /\ Cardinality(ConfirmationsOf(payments[p])) = 1
             /\ \A k \in ConfirmationsOf(payments[p]) :
                   /\ payments[p].orderId \in DOMAIN orders
                   /\ notifications[k].recipientId = orders[payments[p].orderId].userId
        ELSE ConfirmationsOf(payments[p]) = {}

\* -------------------------------------------------------------------------
\* C20: POST /api/orders/:id/payment sent by a signed-in user who does not own
\* the order is answered 403 and leaves storage as it was (no Payment row, no
\* order status change); sent for an order id that does not exist it is
\* answered 404 and creates no Payment row.
C20_PaymentRouteGuards ==
    \A su \in Users, o \in OrderIdInputs, m \in Methods, ms \in MockSuccessInputs,
       gw \in BOOLEAN :
        \A nt \in NotifyOutcomes :
            LET r == PayOrderRoute(Store, su, o, m, ms, gw, nt)
            IN  IF o \notin DOMAIN orders
                THEN r.http = 404 /\ r.store = Store
                ELSE orders[o].userId # su => (r.http = 403 /\ r.store = Store)

\* a payment made through the route is on record, and another order is
\* unpaid: its owner's request would be answered 201, the other user's is
\* refused
C20_Witness ==
    /\ \E p \in DOMAIN payments : payments[p].status = "completed"
    /\ \E o \in DOMAIN orders, su \in Users :
          /\ orders[o].userId # su
          /\ PaymentsOf(payments, o) = {}
          /\ PayOrderRoute(Store, orders[o].userId, o, "credit_card", "absent", TRUE, TRUE).http = 201
          /\ PayOrderRoute(Store, su, o, "credit_card", "absent", TRUE, TRUE).http = 403

\* -------------------------------------------------------------------------
\* reading an order id string back: the digits after the four-character
\* prefix, as a decimal number
DigitValue(c) == CHOOSE d \in 0..9 : DigitChars[d + 1] = c

RECURSIVE ParseDigits(_)
ParseDigits(str) ==
    IF str = <<>> THEN 0
    ELSE ParseDigits(SubSeq(str, 1, Len(str) - 1)) * 10 + DigitValue(str[Len(str)])

ParseOrderId(str) == ParseDigits(SubSeq(str, 5, Len(str)))

\* C21: the orderId createOrder renders for a numeric id is "ORD-" followed
\* by the id in decimal, zero-padded on the left to at least four digits (7
\* gives ORD-0007), and reading the digits back gives the id, so that two
\* different ids never share an orderId, ids above 9999 included.
C21_OrderIdRoundTrip ==
    \A r \in InFlight("createOrder") :
        LET id == calls[r].id
            orderId == calls[r].orderId
        IN  /\ SubSeq(orderId, 1, 4) = <<"O", "R", "D", "-">>
            /\ Len(orderId) = 4 + Max(4, Len(String(id)))
            /\ \A k \in 5..Len(orderId) : \E d \in 1..10 : DigitChars[d] = orderId[k]
            /\ id = 7 => orderId = <<"O", "R", "D", "-", "0", "0", "0", "7">>
            /\ ParseOrderId(orderId) = id
            /\ \A r2 \in InFlight("createOrder") :
                  calls[r2].orderId = orderId => calls[r2].id = id

\* order 7 and order 10007, whose last four digits agree, rendered side by side
C21_Witness ==
    \E r1, r2 \in InFlight("createOrder") :
        /\ calls[r1].id = 7
        /\ calls[r2].id = 10007
        /\ calls[r1].orderId # calls[r2].orderId

\* -------------------------------------------------------------------------
\* C22: updateOrderStatus has no transition guard: for every existing order,
\* whatever its current status (cancelled, delivered and completed included),
\* and every OrderStatus value st, updateOrderStatus(orderId, st) succeeds,
\* leaves the order with status st and changes nothing else of that order or
\* of storage.
C22_NoTransitionGuard ==
    \A o \in DOMAIN orders, st \in OrderStatus :
        LET r == UpdateOrderStatus(Store, o, st)
        IN  /\ r.result = "ok"
            /\ r.ret = o
            /\ r.store.orders[o] = [orders[o] EXCEPT !.status = st]
            /\ r.store = [Store EXCEPT !.orders = [orders EXCEPT ![o].status = st]]

\* a cancelled order and a completed one, both of which can still be moved
\* back to pending
C22_Witness ==
    \E o1, o2 \in DOMAIN orders :
        /\ orders[o1].status = "cancelled"
        /\ orders[o2].status = "completed"
        /\ UpdateOrderStatus(Store, o1, "pending").store.orders[o1].status = "pending"
        /\ UpdateOrderStatus(Store, o2, "shipped").store.orders[o2].status = "shipped"

\* -------------------------------------------------------------------------
\* ids a lookup may be given: those of rows that exist, and others
LookupIds == {0} \cup OrderIdInputs \cup PaymentIdInputs \cup {Len(orders) + 1, Len(payments) + 1}

\* C23: getOrder, getOrderWithItems, updateOrderStatus, getPayment,
\* getPaymentByOrderId and updatePaymentStatus, called with an id that matches
\* no row, return undefined (they do not throw) and leave storage as it was.
C23_NotFoundSentinel ==
    \A id \in LookupIds :
        /\ id \notin DOMAIN orders =>
              /\ GetOrder(Store, id) = NotFound(Store)
              /\ GetOrderWithItems(Store, id) = NotFound(Store)
              /\ \A st \in OrderStatus : UpdateOrderStatus(Store, id, st) = NotFound(Store)
        /\ id \notin DOMAIN payments =>
              /\ GetPayment(Store, id) = NotFound(Store)
              /\ \A st \in PaymentStatus : UpdatePaymentStatus(Store, id, st) = NotFound(Store)
        /\ PaymentsOf(payments, id) = {} => GetPaymentByOrderId(Store, id) = NotFound(Store)

\* an order and a payment exist, and so do an order id, a payment id and an
\* order id without payment that match no row
C23_Witness ==
    /\ orders # <<>>
    /\ payments # <<>>
    /\ \E id \in OrderIdInputs :
          id \notin DOMAIN orders /\ UpdateOrderStatus(Store, id, "shipped").result = "undefined"
    /\ \E id \in PaymentIdInputs :
          id \notin DOMAIN payments
              /\ UpdatePaymentStatus(Store, id, "completed").result = "undefined"
    /\ \E id \in OrderIdInputs :
          PaymentsOf(payments, id) = {} /\ GetPaymentByOrderId(Store, id).result = "undefined"

\* -------------------------------------------------------------------------
RowsOf(items, cid, productId) == {it \in items : it.cartId = cid /\ it.productId = productId}

\* the cart holds one row of the product and its quantity is q
SingleRowOf(items, cid, productId, q) ==
    \E it \in RowsOf(items, cid, productId) :
        RowsOf(items, cid, productId) = {it} /\ it.quantity = q

\* C24: two addItemToCart calls for the same cart and product that are in
\* flight together, adding q1 and q2, do not leave the cart with a single
\* CartItem of that product whose quantity is the previous quantity plus q1
\* plus q2: each call writes a row of its own.
C24_AddItemRace ==
    \A r1, r2 \in InFlight("addItemToCart") :
        (/\ r1 # r2
         /\ calls[r1].cartId = calls[r2].cartId
         /\ calls[r1].productId = calls[r2].productId) =>
            LET cid == calls[r1].cartId
                p == calls[r1].productId
                before == RowsOf(cartItems, cid, p)
                first == AddCartItemOf(Store, calls[r1])
                second == AddCartItemOf(first.store, calls[r2])
                after == RowsOf(second.store.cartItems, cid, p)
            IN  /\ first.result = "ok"
                /\ second.result = "ok"
                /\ Cardinality(after) = Cardinality(before) + 2
                /\ \A prev \in 0..MaxOf(Quantities) :
                      (before = {} /\ prev = 0) \/ SingleRowOf(cartItems, cid, p, prev) =>
                          ~SingleRowOf(second.store.cartItems, cid, p,
                                       prev + calls[r1].quantity + calls[r2].quantity)

\* both calls have returned: one cart holds two rows of one product
C24_Witness ==
    /\ InFlight("addItemToCart") = {}
    /\ \E a, b \in cartItems :
          a.id # b.id /\ a.cartId = b.cartId /\ a.productId = b.productId

\* -------------------------------------------------------------------------
\* C25: every stored CartItem has quantity >= 1 in every reachable state,
\* whichever storage implementation is behind the cart service: an update to
\* a quantity of 0 or less removes the row.
C25_QuantityAtLeastOne ==
    /\ \A it \in cartItems : it.quantity >= 1
    /\ \A it \in cartItems :
          LET r == UpdateCartItemQuantity(Store, it.id, 0)
          IN  r.store.cartItems = cartItems \ {it}

\* -------------------------------------------------------------------------
\* C26: once an order id has a Payment, whatever that payment's status
\* (failed and refunded included), processPayment for it is refused with
\* "payment already exists" and writes nothing; so for an order whose only
\* payment failed no operation of the payment workflow (processPayment,
\* createStripeCheckoutSession, processRefund) changes the order's status.
C26_NoRetryAfterPayment ==
    \A o \in OrderIdInputs :
        PaymentsOf(payments, o) # {} =>
            /\ \A a \in Amounts, m \in Methods, ms \in BOOLEAN, gw \in BOOLEAN :
                  LET call == processPaymentCall(Store, o, a, m, ms, gw)
                  IN  call.result = "Payment already exists" /\ call.store = Store
            /\ (\A p \in PaymentsOf(payments, o) : payments[p].status = "failed") =>
                  /\ CreateStripeCheckoutSession(Store, o).store.orders = orders
                  /\ \A p \in PaymentsOf(payments, o), a \in Amounts \cup {Null},
                        ok \in BOOLEAN :
                        ProcessRefund(Store, p, a, ok).store.orders = orders

\* a pending order whose payment failed and a cancelled one whose payment was
\* refunded: a further payment of either is refused
C26_Witness ==
    \E o1, o2 \in DOMAIN orders :
        /\ orders[o1].status = "pending"
        /\ \E p \in PaymentsOf(payments, o1) : payments[p].status = "failed"
        /\ \E p \in PaymentsOf(payments, o2) : payments[p].status = "refunded"
        /\ processPaymentCall(Store, o1, 10, "credit_card", TRUE, TRUE).result
              = "Payment already exists"
        /\ processPaymentCall(Store, o2, 10, "credit_card", TRUE, TRUE).result
              = "Payment already exists"

\* -------------------------------------------------------------------------
\* C27: every Payment row references an existing Order in every reachable
\* state: processPayment with an orderId that matches no order fails and
\* creates no Payment.
C27_PaymentReferencesOrder ==
    /\ \A p \in DOMAIN payments : payments[p].orderId \in DOMAIN orders
    /\ \A o \in OrderIdInputs, a \in Amounts, m \in Methods, ms \in BOOLEAN, gw \in BOOLEAN :
          o \notin DOMAIN orders =>
              LET call == processPaymentCall(Store, o, a, m, ms, gw)
              IN  call.result # "ok" /\ call.store.payments = payments

\* -------------------------------------------------------------------------
\* C28: a processPayment that returns a completed Payment leaves the order
\* in status processing whatever its status was before, and changes nothing
\* else of the order; an order that was cancelled, shipped, delivered or
\* completed and has no Payment is moved back to processing by it.
C28_SuccessOverridesStatus ==
    \A o \in DOMAIN orders, a \in Amounts, m \in Methods, ms \in BOOLEAN, gw \in BOOLEAN :
        LET call == processPaymentCall(Store, o, a, m, ms, gw)
        IN  /\ (call.result = "ok" /\ call.store.payments[call.ret].status = "completed") =>
                  call.store.orders[o] = [orders[o] EXCEPT !.status = "processing"]
            /\ (PaymentsOf(payments, o) = {} /\ ms /\ (StripeBranch(m) => gw)) =>
                  (call.result = "ok" /\ call.store.payments[call.ret].status = "completed")

\* an order already past processing, without a Payment, that a successful
\* processPayment moves back to processing
C28_Witness ==
    \E o \in DOMAIN orders, a \in Amounts, m \in Methods :
        /\ orders[o].status \in {"cancelled", "shipped", "delivered", "completed"}
        /\ PaymentsOf(payments, o) = {}
        /\ LET call == processPaymentCall(Store, o, a, m, TRUE, TRUE)
           IN  /\ call.result = "ok"
               /\ call.store.payments[call.ret].status = "completed"
               /\ call.store.orders[o].status = "processing"

\* -------------------------------------------------------------------------
\* the cart items of carts that do not belong to user u
ItemsNotOf(s, u) == {it \in s.cartItems : s.carts[it.cartId].userId # u}

\* C29: a cart mutation made through the HTTP routes by the authenticated
\* user u (POST /api/cart/items, PUT and DELETE /api/cart/items/:id) changes
\* CartItems of u's own cart only.
C29_OwnCartOnly ==
    \A u \in Users :
        /\ \A p \in RouteProductIds, q \in RouteQuantities :
              ItemsNotOf(AddItemRoute(Store, u, p, q).store, u) = ItemsNotOf(Store, u)
        /\ \A id \in CartItemIdInputs, q \in RouteQuantities :
              ItemsNotOf(UpdateItemRoute(Store, u, id, q).store, u) = ItemsNotOf(Store, u)
        /\ \A id \in CartItemIdInputs :
              ItemsNotOf(DeleteItemRoute(Store, u, id).store, u) = ItemsNotOf(Store, u)

\* -------------------------------------------------------------------------
\* the cart lines two calls have both read
SharedLines(c1, c2) ==
    {c1.cartWithItems.items[k].id : k \in DOMAIN c1.cartWithItems.items}
        \cap {c2.cartWithItems.items[k].id : k \in DOMAIN c2.cartWithItems.items}

\* C30: when two createOrderFromCart calls of the same user are in flight
\* together (a double submission), a cart line becomes OrderItems of at most
\* one Order: whichever way the calls finish, they do not both create an
\* Order from the cart lines they both read.
C30_NoDoubleOrder ==
    \A r1, r2 \in InFlight("createOrderFromCart") :
        (/\ r1 # r2
         /\ calls[r1].userId = calls[r2].userId
         /\ SharedLines(calls[r1], calls[r2]) # {}) =>
            LET first == OrderFromCartWithItems(Store, calls[r1].userId,
                                                calls[r1].cartWithItems)
                second == OrderFromCartWithItems(first.store, calls[r2].userId,
                                                 calls[r2].cartWithItems)
            IN  ~(/\ first.result = "ok"
                  /\ second.result = "ok"
                  /\ first.ret # second.ret
                  /\ Len(second.store.orderItems) >
                         Len(first.store.orderItems))

====
